---- MODULE Spec2Model ----
(***************************************************************************)
(* Model of the sash actuator motion controller (SashActuator) together    *)
(* with the relay driver, the hall sensor array, the current sensor and    *)
(* the threads that call into the controller (HTTP handlers, buttons).     *)
(*                                                                         *)
(* Python's None is modelled by NoPos (positions) and NoThread (threads).  *)
(* Wall-clock time is modelled by counting polling ticks of a loop.        *)
(***************************************************************************)
EXTENDS Integers, FiniteSets, Sequences, TLC

\* ------------------------------------------------------------------ bounds
\* Polling ticks after which the movement loop's MAX_MOVEMENT_TIME test fires.
MaxMoveTicks == 2
\* Polling ticks of one search pulse (the loop bounded by 1.0 s).
PulseTicks == 1
\* Most hall sensors the environment holds active at the same time.
MaxActive == 1
\* Polling ticks after which the POSITION_TIMEOUT test of the sequence check fires.
PositionTimeoutTicks == 1
\* Thread objects that can exist at the same time.
MaxThreads == 2
\* Calls of move_to_position_async and stop() made after construction, and
\* sensor edges delivered after construction, with a single calling thread.
MaxCalls == 2
MaxEdges == 2
\* The same with two calling threads.
RaceCalls == 2
RaceEdges == 1
\* Moves requested after construction, and sensor edges delivered, in the
\* runs of single moves across several positions.
ScenarioCalls == 1
ScenarioEdges == 5
\* Calls made on the relay driver by a thread that drives it directly.
RelayCalls == 6
\* Sensor edges delivered while the position is being read.
SnapshotEdges == 2
\* The same for the runs checked under fair scheduling of the workers.
FairCalls == 1
FairEdges == 1
\* Level changes of the sensor pins, and snapshot() calls, in the runs of the
\* hall array's own threads.
PinEdges == 2
SnapshotCalls == 1
\* POST /move requests, and sensor edges delivered, in the runs of the HTTP
\* service.
ApiCalls == 2
ApiEdges == 1
\* Largest number of consecutive samples a collision is configured to need,
\* and calls of check_current_threshold made during one move.
MaxRequiredSamples == 2
CheckCalls == 3
\* Moves requested after construction, and sensor edges delivered, in the
\* runs with current samples below the expected minimum.
LowCalls == 1
LowEdges == 2
\* Changes of the hall pin of the single-sensor node, trips of its polling
\* loop, and reads of its state by the HTTP service.
NodeEdges == 3
NodePolls == 3
NodeReads == 1
\* Calls made before clean_exit, and sensor edges, in the runs that shut the
\* service down.
ExitCalls == 1
ExitEdges == 1

\* -------------------------------------------------------- program constants
NumSensors == 5
MinTarget == 1
MaxTarget == 5
MaxPulses == 5
CURRENT_THRESHOLD_UP == 1300
CURRENT_THRESHOLD_DOWN == -1300
\* Consecutive samples beyond the threshold that make a collision: the
\* controller tests one sample per trip and leaves the loop on the first.
CURRENT_SAMPLES == 1
\* Smallest current expected of a moving actuator, in either direction.
MIN_EXPECTED_CURRENT == -5

NoPos == 0
NoThread == 0
Unwritten == -1
\* BCM numbers of the hall sensor pins, in channel order.
HALL_PINS == <<5, 6, 13, 19, 26>>

\* Threads that call into the controller.
Callers == {"http", "buttons"}
Workers == 1..MaxThreads
\* Positions of a worker inside the position search (lines 96-112).
SearchPcs == {"search", "pd_on", "pulse"}
\* Targets a caller passes to move_to_position_async.
Targets == {1, 3, 6}
\* Targets of the moves across several positions.
ScenarioTargets == {3, 5}
\* Raw shunt counts the current sensor returns.
Samples == {-2000, 0, 2000}
\* The same with a count below the expected minimum that is beyond neither
\* collision threshold.
LowSamples == {-2000, -100, 0, 2000}

VARIABLES
    hall,             \* HallArray.state: level per channel, 0 = magnet present
    current_position, \* SashActuator.current_position (NoPos = None)
    stop_flag,        \* SashActuator.stop_flag (threading.Event)
    movement_thread,  \* SashActuator.movement_thread (NoThread = None)
    up_pin,           \* GPIO level of the UP relay line (TRUE = HIGH)
    down_pin,         \* GPIO level of the DOWN relay line
    marker,           \* content of POSITION_STATE_FILE
    th,               \* thread objects: worker position and locals
    cl,               \* caller threads: position inside the controller call
    calls,            \* controller calls made so far
    edges,            \* sensor edges delivered so far
    ha,               \* HallArray besides its state list: pins, lock, threads
    sensor,           \* CurrentSensor: calibration and the last register read
    chk,              \* check_current_threshold: its locals and the move's fate
    node              \* SashSensor: the single-sensor node and its two GPIO lines

vars == <<hall, current_position, stop_flag, movement_thread, up_pin, down_pin,
          marker, th, cl, calls, edges, ha, sensor, chk, node>>

\* ------------------------------------------------------------- hall array
Idle == [i \in 1..NumSensors |-> 1]

ActiveCount(s) == Cardinality({i \in 1..NumSensors : s[i] = 0})

RECURSIVE FirstActive(_, _)
FirstActive(states, idx) ==
    IF idx > NumSensors THEN NoPos
    ELSE IF states[idx] = 0 THEN idx
    ELSE FirstActive(states, idx + 1)

\* SashActuator.get_current_position: first channel whose level is 0.
get_current_position(states) == FirstActive(states, 1)

\* A callback that forgets the position when the magnet leaves the sensor.
HallCallbackClearsOnRelease(pos, state, idx) == IF state = 0 THEN idx + 1 ELSE NoPos

\* SashActuator.hall_callback: a magnet edge (state 0) sets the position.
hall_callback(pos, state, idx) == IF state = 0 THEN idx + 1 ELSE pos

\* HallArray._isr: an edge on channel idx latches the level read from the pin
\* and then runs the registered callback.  A worker that is searching is marked
\* with the pulse during which a sensor first became active.
HallEdge(idx, level) ==
    /\ ~ha.closed
    /\ edges' = edges + 1
    /\ hall[idx + 1] # level
    /\ level = 0 => ActiveCount(hall) < MaxActive
    /\ hall' = [hall EXCEPT ![idx + 1] = level]
    /\ ha' = [ha EXCEPT !.pins[idx + 1] = level]
    /\ current_position' = hall_callback(current_position, level, idx)
    /\ th' = [w \in Workers |->
                IF level = 0 /\ th[w].pc \in SearchPcs /\ th[w].lit = 0
                THEN [th[w] EXCEPT !.lit = IF th[w].pc = "pulse" THEN th[w].np
                                           ELSE th[w].np + 1]
                ELSE th[w]]
    /\ UNCHANGED <<stop_flag, movement_thread, up_pin, down_pin, marker, cl, calls, sensor, chk, node>>

\* pins.index(channel): the channel index of a BCM pin number.
PinsIndex(channel) == (CHOOSE i \in 1..NumSensors : HALL_PINS[i] = channel) - 1

\* HallArray.__init__, the state list it starts from: hall.py appends the
\* level read from each pin, sash-actuator/switches.py starts every channel at
\* the pulled-up idle level.
InitialState(impl, levels) == IF impl = "hall" THEN levels ELSE Idle

\* A thread that is not inside snapshot(): i is the next element list.copy()
\* reads, copy the list built so far, own whether the list the caller holds is
\* an object of its own (not self.state itself).
NoReader == [pc |-> "idle", i |-> 0, copy |-> <<>>, own |-> TRUE]

\* The event thread outside _isr.
NoIsr == [pc |-> "idle", idx |-> 0, level |-> 1]

\* The array after __init__(pins, bouncetime) with the pins at the given
\* levels: impl the file it comes from, pins the levels the pins have now,
\* quiet the channels inside the bouncetime of their last delivered edge,
\* pend the delivered edges _isr has not been run for yet, lock the holder of
\* _lock, isr the event thread,
\* ntake / ncb the runs of _isr and of the callback so far, args the arguments
\* of the last callback, rd the threads inside snapshot().
HallArrayInit(impl, levels) ==
    [impl |-> impl, pins |-> levels, quiet |-> {}, pend |-> <<>>,
     lock |-> "free", isr |-> NoIsr, ntake |-> 0, ncb |-> 0, args |-> <<>>,
     rd |-> [c \in Callers |-> NoReader], closed |-> FALSE]

HallFrame == UNCHANGED <<stop_flag, movement_thread, up_pin, down_pin, marker, th, cl, sensor, chk, node>>

\* The level of the pin of channel idx changes.  GPIO.add_event_detect(p,
\* GPIO.BOTH, callback=self._isr, bouncetime=bouncetime) delivers the edge
\* unless the channel is inside the bouncetime of its last delivered edge.
PinEdge(idx) ==
    /\ ~ha.closed
    /\ edges' = edges + 1
    /\ ha' = [ha EXCEPT !.pins[idx + 1] = 1 - @,
                        !.quiet = @ \cup {idx},
                        !.pend = IF idx \in ha.quiet THEN @ ELSE Append(@, idx)]
    /\ UNCHANGED <<hall, current_position, calls>>
    /\ HallFrame

\* The bouncetime of the last delivered edge of channel idx is over.
BounceEnds(idx) ==
    /\ idx \in ha.quiet
    /\ ha' = [ha EXCEPT !.quiet = @ \ {idx}]
    /\ UNCHANGED <<hall, current_position, calls, edges>>
    /\ HallFrame

\* An _isr that goes from reading the level straight to the callback.
IsrReadThenCall ==
    /\ ha.isr.pc = "idle"
    /\ ha.pend # <<>>
    /\ LET channel == HALL_PINS[Head(ha.pend) + 1]
           idx == PinsIndex(channel)
       IN ha' = [ha EXCEPT !.pend = Tail(@), !.ntake = @ + 1,
                           !.isr = [pc |-> "call", idx |-> idx,
                                    level |-> ha.pins[idx + 1]]]
    /\ UNCHANGED <<hall, current_position, calls, edges>>
    /\ HallFrame

\* _isr, lines 67-68: the event thread runs _isr(channel) for the oldest
\* delivered edge; idx = self.pins.index(channel), level = GPIO.input(channel).
Isr_Read ==
    /\ ha.isr.pc = "idle"
    /\ ha.pend # <<>>
    /\ LET channel == HALL_PINS[Head(ha.pend) + 1]
           idx == PinsIndex(channel)
       IN ha' = [ha EXCEPT !.pend = Tail(@), !.ntake = @ + 1,
                           !.isr = [pc |-> "latch", idx |-> idx,
                                    level |-> ha.pins[idx + 1]]]
    /\ UNCHANGED <<hall, current_position, calls, edges>>
    /\ HallFrame

\* An _isr that stores the level without taking _lock.
IsrLatchWithoutLock ==
    /\ ha.isr.pc = "latch"
    /\ hall' = [hall EXCEPT ![ha.isr.idx + 1] = ha.isr.level]
    /\ ha' = [ha EXCEPT !.isr.pc = "call"]
    /\ UNCHANGED <<current_position, calls, edges>>
    /\ HallFrame

\* _isr, lines 69-70: with self._lock: self.state[idx] = level.
Isr_Latch ==
    /\ ha.isr.pc = "latch"
    /\ ha.lock = "free"
    /\ hall' = [hall EXCEPT ![ha.isr.idx + 1] = ha.isr.level]
    /\ ha' = [ha EXCEPT !.isr.pc = "call"]
    /\ UNCHANGED <<current_position, calls, edges>>
    /\ HallFrame

\* _isr, lines 71-72: self._cb(channel, level, idx), the controller's
\* hall_callback.
Isr_Call ==
    /\ ha.isr.pc = "call"
    /\ current_position' = hall_callback(current_position, ha.isr.level, ha.isr.idx)
    /\ ha' = [ha EXCEPT !.isr = NoIsr, !.ncb = @ + 1,
                        !.args = <<HALL_PINS[ha.isr.idx + 1], ha.isr.level, ha.isr.idx>>]
    /\ UNCHANGED <<hall, calls, edges>>
    /\ HallFrame

\* snapshot, line 58: the thread c takes _lock.
Snap_Acquire(c) ==
    /\ ha.rd[c].pc \in {"idle", "have", "changed"}
    /\ ha.lock = "free"
    /\ ha' = [ha EXCEPT !.lock = c,
                        !.rd[c] = [NoReader EXCEPT !.pc = "copy", !.i = 1]]
    /\ calls' = calls + 1
    /\ UNCHANGED <<hall, current_position, edges>>
    /\ HallFrame

\* snapshot, line 59: self.state.copy() reads the next element.
Snap_Copy(c) ==
    /\ ha.rd[c].pc = "copy"
    /\ ha.rd[c].i <= NumSensors
    /\ ha' = [ha EXCEPT !.rd[c].copy = Append(@, hall[ha.rd[c].i]),
                        !.rd[c].i = @ + 1]
    /\ UNCHANGED <<hall, current_position, calls, edges>>
    /\ HallFrame

\* snapshot, line 59: the new list is returned and _lock is released.
Snap_Release(c) ==
    /\ ha.rd[c].pc = "copy"
    /\ ha.rd[c].i > NumSensors
    /\ ha' = [ha EXCEPT !.lock = "free", !.rd[c].pc = "have", !.rd[c].own = TRUE]
    /\ UNCHANGED <<hall, current_position, calls, edges>>
    /\ HallFrame

\* The caller c assigns v to element i of the list snapshot() returned and
\* lets the list go: the assignment changes the object the caller held.
Snap_Mutate(c, i, v) ==
    /\ ha.rd[c].pc = "have"
    /\ ha.rd[c].copy[i] # v
    /\ ha' = [ha EXCEPT !.rd[c] = [NoReader EXCEPT !.pc = "changed"]]
    /\ hall' = IF ha.rd[c].own THEN hall ELSE [hall EXCEPT ![i] = v]
    /\ UNCHANGED <<current_position, calls, edges>>
    /\ HallFrame

\* ------------------------------------------------------------ thread objects
AlivePcs == {"begin", "search", "pd_on", "pulse", "dir", "on", "loop", "finish"}

\* threading.Thread.is_alive
is_alive(t) == th[t].pc \in AlivePcs

AliveWorkers == {w \in Workers : is_alive(w)}

\* A thread object no one runs: never created, unstarted garbage, or finished.
\* Besides the locals of move_to_position it carries what the thread has done:
\* np search pulses issued, nup / ndn calls of up_on / down_on for the move,
\* lit the search pulse (pulses are counted from 1) during which, or ahead of
\* which, a sensor became active for the searching thread, 0 when none did,
\* hit the search pulse it has just left ended on the collision test.
NoThreadObj ==
    [pc |-> "none", target |-> 0, cur |-> NoPos, pulse |-> 0, ticks |-> 0,
     init |-> NoPos, lvt |-> 0, lvp |-> NoPos,
     outcome |-> "none", wrote |-> FALSE, stopReq |-> FALSE, over |-> 0,
     np |-> 0, nup |-> 0, ndn |-> 0, lit |-> 0, hit |-> FALSE]

\* threading.Thread(target=self.move_to_position, args=(target_pos, mode))
NewThread(target_pos) == [NoThreadObj EXCEPT !.pc = "created", !.target = target_pos]

\* A finished thread keeps only what it did, not its locals.
Ended(t, how) ==
    [NoThreadObj EXCEPT !.pc = "done", !.outcome = how,
                        !.wrote = t.wrote]

\* ------------------------------------------------------ single-sensor node
\* SashSensor.get_state_from_gpio: the magnet pulls the hall pin low.
get_state_from_gpio(pin) == pin = 0

\* SashSensor.__init__ with the hall pin at level pin and the LED line at the
\* level led: GPIO.setup(led_pin, GPIO.OUT) is given no initial value, so the
\* line keeps the level it has, and the constructor latches the hall state
\* without writing the LED.  cur is the local current_state of run(), told the
\* number of calls of on_state_change, got what get_current_state() returned,
\* polls and reads count the trips of the loop and the reads.
SashSensorInit(pin, led) ==
    [pc |-> "read", pin |-> pin, led |-> led, _state |-> get_state_from_gpio(pin),
     cur |-> FALSE, told |-> 0, got |-> "none", polls |-> 0, reads |-> 0]

\* The program has no single-sensor node.
NoNode == [SashSensorInit(1, FALSE) EXCEPT !.pc = "none"]

NodeFrame == UNCHANGED <<hall, current_position, stop_flag, movement_thread, up_pin, down_pin, marker, th, cl, calls, ha, sensor, chk>>

\* The magnet arrives at the sensor or leaves it.
NodePinEdge ==
    /\ node.pc # "none"
    /\ edges' = edges + 1
    /\ node' = [node EXCEPT !.pin = 1 - @]
    /\ NodeFrame

\* run, line 25: the pin is read into current_state.
Node_Read ==
    /\ node.pc = "read"
    /\ node' = [node EXCEPT !.pc = "latch", !.cur = get_state_from_gpio(node.pin)]
    /\ UNCHANGED edges
    /\ NodeFrame

\* run, lines 26-32, under the lock: a changed state is latched, written to
\* the LED and passed to on_state_change; an unchanged one writes nothing.
Node_Latch ==
    /\ node.pc = "latch"
    /\ IF node.cur # node._state
       THEN node' = [node EXCEPT !.pc = "sleep", !._state = node.cur, !.led = node.cur,
                                 !.told = (@ + 1) % 2]
       ELSE node' = [node EXCEPT !.pc = "sleep"]
    /\ UNCHANGED edges
    /\ NodeFrame

\* run, line 33: the sleep that ends the trip.
Node_Sleep ==
    /\ node.pc = "sleep"
    /\ node' = [node EXCEPT !.pc = "read", !.polls = @ + 1]
    /\ UNCHANGED edges
    /\ NodeFrame

\* SashSensor.get_current_state, called by the HTTP service: the latched
\* state, read under the lock.
get_current_state ==
    /\ node.pc # "none"
    /\ node' = [node EXCEPT !.got = IF node._state THEN "True" ELSE "False",
                            !.reads = @ + 1]
    /\ UNCHANGED edges
    /\ NodeFrame

\* ------------------------------------------------------------ current sensor
\* Bytes the I2C bus returns for a register, among them the two bytes of the
\* thresholds 1300 and -1300 and of the default calibration.
ByteSamples == {0, 1, 5, 17, 20, 26, 54, 121, 127, 128, 236, 250, 251, 255}

\* Lines 28-29: cal = int(0.04096 / (current_lsb * r_shunt)) with
\* current_lsb = i_max / 2 ** 15, for i_max in tenths of an ampere and r_shunt
\* in milliohms (0.04096 * 2 ** 15 * 10 * 1000 = 4096 * 32768 / 10).
Calibration(i_max, r_shunt) == (4096 * 32768) \div (10 * i_max * r_shunt)

\* (data[0] << 8) | data[1] for two bytes: the low byte of the shifted value
\* is zero, so the or adds.
Word(data) == data[1] * 256 + data[2]

\* A read of the shunt register that leaves the word unsigned.
ReadRawUnsigned(data) == Word(data)

\* read_raw_shunt, lines 44-47: the word, less 1 << 16 when bit 15 is set.
read_raw_shunt(data) ==
    LET raw == Word(data) IN
    IF (raw \div 32768) % 2 = 1 THEN raw - 65536 ELSE raw

\* A CurrentSensor being constructed with i_max and r_shunt: pc is "new"
\* before __init__ has run, "ready" once it returned and "failed" once it
\* raised; cal the calibration written, back the value read back, data the
\* bytes of the last shunt read and raw what read_raw_shunt returned for them.
NewSensor(i_max, r_shunt) ==
    [pc |-> "new", cal |-> Calibration(i_max, r_shunt), back |-> 0,
     data |-> <<0, 0>>, raw |-> 0, read |-> FALSE]

\* The sensor of the controller: i_max = 3.0 A, r_shunt = 0.1 ohm, the
\* calibration read back as written.
ReadySensor ==
    [NewSensor(30, 100) EXCEPT !.pc = "ready", !.back = Calibration(30, 100)]

SensorFrame == UNCHANGED <<hall, current_position, stop_flag, movement_thread, up_pin, down_pin, marker, th, cl, calls, edges, ha, chk, node>>

\* CurrentSensor.__init__, lines 30-36: the calibration is written to register
\* 0x05 as [msb, lsb], the register is read back as the bytes b0, b1, and the
\* value read is kept in cal_value_read.
Sensor_Init(b0, b1) ==
    /\ sensor.pc = "new"
    /\ LET msb == (sensor.cal \div 256) % 256
           lsb == sensor.cal % 256
       IN \/ b0 = msb /\ b1 = lsb
          \/ b0 \in {0, msb, 255} /\ b1 \in {0, lsb, 255}
    /\ sensor' = [sensor EXCEPT !.pc = "ready", !.back = Word(<<b0, b1>>)]
    /\ SensorFrame

\* read_raw_shunt, line 43 on: the bus returns the bytes d0, d1 of register 0x01.
Sensor_Read(d0, d1) ==
    /\ sensor.pc = "ready"
    /\ sensor' = [sensor EXCEPT !.data = <<d0, d1>>, !.read = TRUE,
                                !.raw = read_raw_shunt(<<d0, d1>>)]
    /\ SensorFrame

\* A move that tests for a collision with check_current_threshold, outside a
\* call of it: n the configured CURRENT_SAMPLES, threshold the threshold of the
\* move's direction, count the local high_current_count, k the samples read in
\* the call, seq those samples, result what the last call returned, aborted
\* whether the move has been stopped for a collision.
NoCheck(n, threshold) ==
    [pc |-> "idle", n |-> n, threshold |-> threshold, count |-> 0, k |-> 0,
     seq |-> <<>>, result |-> FALSE, aborted |-> FALSE]

CheckFrame == UNCHANGED <<hall, current_position, stop_flag, movement_thread, up_pin, down_pin, marker, th, cl, edges, ha, sensor, node>>

\* check_current_threshold, line 100: high_current_count = 0.
Check_Begin ==
    /\ chk.pc = "idle"
    /\ ~chk.aborted
    /\ chk' = [chk EXCEPT !.pc = "sampling", !.count = 0, !.k = 0, !.seq = <<>>]
    /\ calls' = calls + 1
    /\ CheckFrame

\* A pass of the sampling loop that leaves the count alone on a low reading.
CheckSampleKeepsCount(amps) ==
    /\ chk.pc = "sampling"
    /\ chk.k < chk.n
    /\ chk' = [chk EXCEPT !.count = IF amps > chk.threshold THEN @ + 1 ELSE @,
                          !.k = @ + 1, !.seq = Append(@, amps)]
    /\ UNCHANGED calls
    /\ CheckFrame

\* check_current_threshold, lines 101-107: one pass of the sampling loop with
\* the reading amps.
Check_Sample(amps) ==
    /\ chk.pc = "sampling"
    /\ chk.k < chk.n
    /\ chk' = [chk EXCEPT !.count = IF amps > chk.threshold THEN @ + 1 ELSE 0,
                          !.k = @ + 1, !.seq = Append(@, amps)]
    /\ UNCHANGED calls
    /\ CheckFrame

\* check_current_threshold, line 108, and the caller's test of the result:
\* the move is stopped when high_current_count == CURRENT_SAMPLES.
Check_Return ==
    /\ chk.pc = "sampling"
    /\ chk.k >= chk.n
    /\ chk' = [chk EXCEPT !.pc = "idle", !.result = (chk.count = chk.n),
                          !.aborted = (chk.count = chk.n)]
    /\ UNCHANGED calls
    /\ CheckFrame

\* A collision test that reads the down threshold with the sign of the up
\* threshold (amps above it), as the first pipe-driven script did.
CheckCurrentDownAbove(direction, amps) ==
    IF direction = "up" /\ amps > CURRENT_THRESHOLD_UP THEN FALSE
    ELSE IF direction = "down" /\ amps > CURRENT_THRESHOLD_DOWN THEN FALSE
    ELSE TRUE

\* A collision test that also fails on a sample below the expected minimum,
\* the answer of check_movement_current in the pipe-driven script.
CheckCurrentFailsWhenLow(direction, amps) ==
    IF amps < MIN_EXPECTED_CURRENT THEN FALSE
    ELSE IF direction = "up" /\ amps > CURRENT_THRESHOLD_UP THEN FALSE
    ELSE IF direction = "down" /\ amps < CURRENT_THRESHOLD_DOWN THEN FALSE
    ELSE TRUE

\* SashActuator._check_movement_current: FALSE when the sample is beyond the
\* collision threshold of the direction of travel.
_check_movement_current(direction, amps) ==
    IF direction = "up" /\ amps > CURRENT_THRESHOLD_UP THEN FALSE
    ELSE IF direction = "down" /\ amps < CURRENT_THRESHOLD_DOWN THEN FALSE
    ELSE TRUE

\* The sample is beyond the collision threshold of the direction of travel.
Beyond(direction, amps) ==
    \/ direction = "up" /\ amps > CURRENT_THRESHOLD_UP
    \/ direction = "down" /\ amps < CURRENT_THRESHOLD_DOWN

\* ------------------------------------------------------------ move worker
\* A worker that drives down whatever the target.
DirectionAlwaysDown(current_pos, target_pos) == "down"

\* Lines 114-121: the direction of travel from the resolved position.
Direction(current_pos, target_pos) == IF current_pos < target_pos THEN "up" ELSE "down"

\* Line 85: the range test of move_to_position.
ValidTarget(target_pos) == MinTarget <= target_pos /\ target_pos <= MaxTarget

\* A worker that never takes the early return of line 94.
NeverAlreadyThere(current_pos, target_pos) == FALSE

\* Line 92: the worker is done at once when the snapshot shows the target.
AlreadyThere(current_pos, target_pos) == current_pos = target_pos

\* A sequence check whose position timeout also forgets the last valid
\* position.
ValidateTimeoutForgetsPos(start_pos, target_pos, direction, last_valid_time, last_valid_pos, current_time, current_pos) ==
    IF current_time - last_valid_time > PositionTimeoutTicks
    THEN <<current_time, NoPos>>
    ELSE IF /\ current_pos # NoPos
            /\ direction = "up"
            /\ current_pos \in (start_pos + 1)..target_pos
            /\ current_pos > last_valid_pos
    THEN <<current_time, current_pos>>
    ELSE IF /\ current_pos # NoPos
            /\ direction = "down"
            /\ current_pos \in target_pos..(start_pos - 1)
            /\ current_pos < last_valid_pos
    THEN <<current_time, current_pos>>
    ELSE <<last_valid_time, last_valid_pos>>

\* SashActuator._validate_movement_sequence: the new <<last_valid_time,
\* last_valid_pos>>; it only logs otherwise.
_validate_movement_sequence(start_pos, target_pos, direction, last_valid_time, last_valid_pos, current_time, current_pos) ==
    IF current_time - last_valid_time > PositionTimeoutTicks
    THEN <<current_time, last_valid_pos>>
    ELSE IF /\ current_pos # NoPos
            /\ direction = "up"
            /\ current_pos \in (start_pos + 1)..target_pos
            /\ current_pos > last_valid_pos
    THEN <<current_time, current_pos>>
    ELSE IF /\ current_pos # NoPos
            /\ direction = "down"
            /\ current_pos \in target_pos..(start_pos - 1)
            /\ current_pos < last_valid_pos
    THEN <<current_time, current_pos>>
    ELSE <<last_valid_time, last_valid_pos>>

WorkerFrame == UNCHANGED <<hall, current_position, movement_thread, cl, calls, edges, ha, sensor, chk, node>>

\* A start of the move that leaves the stop flag as it finds it.
W_BeginKeepsFlag(w) ==
    /\ th[w].pc = "begin"
    /\ LET current_pos == get_current_position(hall) IN
       th' = [th EXCEPT ![w] =
                IF ~ValidTarget(th[w].target) THEN Ended(th[w], "Invalid")
                ELSE IF AlreadyThere(current_pos, th[w].target)
                THEN Ended(th[w], "ReachedTarget")
                ELSE IF current_pos = NoPos
                THEN [th[w] EXCEPT !.pc = "search", !.pulse = 0]
                ELSE [th[w] EXCEPT !.pc = "dir", !.cur = current_pos]]
    /\ UNCHANGED <<stop_flag, up_pin, down_pin, marker>>
    /\ WorkerFrame

\* move_to_position, lines 84-96: range test, stop_flag.clear(), first read of
\* the position.
W_Begin(w) ==
    /\ th[w].pc = "begin"
    /\ LET current_pos == get_current_position(hall) IN
       IF ~ValidTarget(th[w].target)
       THEN /\ th' = [th EXCEPT ![w] = Ended(th[w], "Invalid")]
            /\ UNCHANGED stop_flag
       ELSE /\ stop_flag' = FALSE
            /\ th' = [th EXCEPT ![w] =
                  IF AlreadyThere(current_pos, th[w].target)
                  THEN Ended(th[w], "ReachedTarget")
                  ELSE IF current_pos = NoPos
                  THEN [th[w] EXCEPT !.pc = "search", !.pulse = 0]
                  ELSE [th[w] EXCEPT !.pc = "dir", !.cur = current_pos]]
    /\ UNCHANGED <<up_pin, down_pin, marker>>
    /\ WorkerFrame

\* Lines 98-104 and 110-112: head of the search loop; on a pass it runs the
\* first half of relay.down_on() (up_off, relay.py line 28).
W_Search(w) ==
    /\ th[w].pc = "search"
    /\ IF th[w].pulse >= MaxPulses
       THEN /\ th' = [th EXCEPT ![w] = Ended(th[w], "SearchFailed")]
            /\ UNCHANGED <<up_pin, down_pin>>
       ELSE IF stop_flag
       THEN /\ up_pin' = FALSE
            /\ down_pin' = FALSE
            /\ th' = [th EXCEPT ![w] = Ended(th[w], "Stopped")]
       ELSE /\ up_pin' = FALSE
            /\ UNCHANGED down_pin
            /\ th' = [th EXCEPT ![w] = [th[w] EXCEPT !.pc = "pd_on", !.hit = FALSE]]
    /\ UNCHANGED <<stop_flag, marker>>
    /\ WorkerFrame

\* _pulse_down, lines 174-177: second half of relay.down_on() (relay.py line
\* 29), the settle delay, and the read of initial_position.
W_PulseOn(w) ==
    /\ th[w].pc = "pd_on"
    /\ down_pin' = TRUE
    /\ th' = [th EXCEPT ![w] = [th[w] EXCEPT !.pc = "pulse", !.ticks = 0,
                                             !.init = current_position,
                                             !.np = th[w].np + 1]]
    /\ UNCHANGED <<up_pin, stop_flag, marker>>
    /\ WorkerFrame

\* A search whose count of pulses starts over after every pulse that found
\* nothing.
AfterPulseStartsOver(t) ==
    IF current_position # NoPos
    THEN [t EXCEPT !.pc = "dir", !.cur = current_position, !.ticks = 0, !.init = NoPos]
    ELSE [t EXCEPT !.pc = "search", !.pulse = 0, !.np = 0, !.ticks = 0, !.init = NoPos]

\* Lines 105-109 after _pulse_down has returned: the position the callback
\* left in current_position decides between the move and the next pulse.
AfterPulse(t) ==
    IF current_position # NoPos
    THEN [t EXCEPT !.pc = "dir", !.cur = current_position, !.ticks = 0, !.init = NoPos]
    ELSE [t EXCEPT !.pc = "search", !.pulse = t.pulse + 1, !.ticks = 0, !.init = NoPos]

\* _pulse_down, lines 178-188: one trip through the polling loop of a pulse
\* with the sample amps, or the end of the pulse.
W_Pulse(w, amps) ==
    /\ th[w].pc = "pulse"
    /\ IF \/ th[w].ticks >= PulseTicks
          \/ ~_check_movement_current("down", amps)
          \/ (current_position # NoPos /\ current_position # th[w].init)
       THEN /\ up_pin' = FALSE
            /\ down_pin' = FALSE
            /\ th' = [th EXCEPT ![w] = AfterPulse([th[w] EXCEPT !.hit =
                      /\ th[w].ticks < PulseTicks
                      /\ ~_check_movement_current("down", amps)])]
       ELSE /\ th' = [th EXCEPT ![w] = [th[w] EXCEPT !.ticks = th[w].ticks + 1]]
            /\ UNCHANGED <<up_pin, down_pin>>
    /\ UNCHANGED <<stop_flag, marker>>
    /\ WorkerFrame

\* Lines 114-121: first half of relay.up_on() / relay.down_on(): the opposite
\* line is written low (relay.py lines 23 and 28).
W_Dir(w) ==
    /\ th[w].pc = "dir"
    /\ IF Direction(th[w].cur, th[w].target) = "up"
       THEN /\ down_pin' = FALSE /\ UNCHANGED up_pin
            /\ th' = [th EXCEPT ![w] = [th[w] EXCEPT !.pc = "on", !.nup = th[w].nup + 1,
                                                     !.hit = FALSE]]
       ELSE /\ up_pin' = FALSE /\ UNCHANGED down_pin
            /\ th' = [th EXCEPT ![w] = [th[w] EXCEPT !.pc = "on", !.ndn = th[w].ndn + 1,
                                                     !.hit = FALSE]]
    /\ UNCHANGED <<stop_flag, marker>>
    /\ WorkerFrame

\* Second half of relay.up_on() / relay.down_on() (relay.py lines 24 and 29),
\* then lines 123-127.
W_On(w) ==
    /\ th[w].pc = "on"
    /\ IF Direction(th[w].cur, th[w].target) = "up"
       THEN up_pin' = TRUE /\ UNCHANGED down_pin
       ELSE down_pin' = TRUE /\ UNCHANGED up_pin
    /\ th' = [th EXCEPT ![w] = [th[w] EXCEPT !.pc = "loop", !.ticks = 0,
                                             !.lvt = 0, !.lvp = th[w].cur]]
    /\ UNCHANGED <<stop_flag, marker>>
    /\ WorkerFrame

\* A loop that looks at the stop flag, the clock and the current before it
\* looks at the position.
LoopExitTargetLast(t, amps) ==
    IF stop_flag THEN "Stopped"
    ELSE IF t.ticks > MaxMoveTicks THEN "TimedOut"
    ELSE IF ~_check_movement_current(Direction(t.cur, t.target), amps)
    THEN "CollisionDetected"
    ELSE IF current_position = t.target THEN "ReachedTarget"
    ELSE "none"

\* How one test of the movement loop (lines 129-140) ends it with the sample
\* amps, "none" when the loop goes on.
LoopExit(t, amps) ==
    IF current_position = t.target THEN "ReachedTarget"
    ELSE IF stop_flag THEN "Stopped"
    ELSE IF t.ticks > MaxMoveTicks THEN "TimedOut"
    ELSE IF ~_check_movement_current(Direction(t.cur, t.target), amps)
    THEN "CollisionDetected"
    ELSE "none"

\* The run of consecutive samples beyond the threshold, after the sample amps
\* of line 138 (a trip that ends before line 138 reads no sample).
OverRun(t, amps) ==
    IF current_position = t.target \/ stop_flag \/ t.ticks > MaxMoveTicks THEN t.over
    ELSE IF ~Beyond(Direction(t.cur, t.target), amps) THEN 0
    ELSE IF t.over >= CURRENT_SAMPLES THEN t.over
    ELSE t.over + 1

\* Lines 129-146: one trip through the movement loop with the sample amps.
W_Loop(w, amps) ==
    /\ th[w].pc = "loop"
    /\ LET t == th[w]
           how == LoopExit(t, amps)
           seq == _validate_movement_sequence(t.cur, t.target,
                      Direction(t.cur, t.target), t.lvt, t.lvp, t.ticks,
                      get_current_position(hall))
       IN th' = [th EXCEPT ![w] =
                   IF how # "none"
                   THEN [t EXCEPT !.pc = "finish", !.outcome = how,
                                  !.ticks = 0, !.lvt = 0, !.lvp = NoPos,
                                  !.over = OverRun(t, amps)]
                   ELSE [t EXCEPT !.ticks = t.ticks + 1,
                                  !.lvt = seq[1], !.lvp = seq[2],
                                  !.over = OverRun(t, amps)]]
    /\ UNCHANGED <<up_pin, down_pin, stop_flag, marker>>
    /\ WorkerFrame

\* An end of the move that writes the marker but leaves the relay as it is.
W_FinishLeavesRelay(w) ==
    /\ th[w].pc = "finish"
    /\ marker' = current_position
    /\ th' = [th EXCEPT ![w] = Ended([th[w] EXCEPT !.wrote = TRUE], th[w].outcome)]
    /\ UNCHANGED <<up_pin, down_pin, stop_flag>>
    /\ WorkerFrame

\* Lines 148-150: relay.all_off() and _write_position_state().
W_Finish(w) ==
    /\ th[w].pc = "finish"
    /\ up_pin' = FALSE
    /\ down_pin' = FALSE
    /\ marker' = current_position
    /\ th' = [th EXCEPT ![w] = Ended([th[w] EXCEPT !.wrote = TRUE], th[w].outcome)]
    /\ UNCHANGED stop_flag
    /\ WorkerFrame

\* CurrentSensor.read_raw_shunt raises (the I2C transfer fails) inside
\* _check_movement_current: nothing catches it and the thread ends there.
W_ReadFails(w) ==
    /\ \/ th[w].pc = "pulse" /\ th[w].ticks < PulseTicks
       \/ th[w].pc = "loop" /\ current_position # th[w].target /\ ~stop_flag
                            /\ th[w].ticks <= MaxMoveTicks
    /\ th' = [th EXCEPT ![w] = Ended(th[w], "Crashed")]
    /\ UNCHANGED <<up_pin, down_pin, stop_flag, marker>>
    /\ WorkerFrame

\* ------------------------------------------------------------ callers
IdleCaller == [pc |-> "idle", arg |-> 0, ret |-> "none", jt |-> NoThread,
               waited |-> FALSE, val |-> NoPos, moving |-> FALSE, was |-> FALSE,
               status |-> 0, within |-> "none"]

CallerFrame == UNCHANGED <<hall, current_position, marker, edges, ha, sensor, chk, node>>

\* Thread objects a new Thread can take the place of: those not running.
FreeSlots == {w \in Workers : ~is_alive(w)}

\* move_to_position_async, lines 72-74: the busy test.
MoveAsyncCheck(c, target_pos) ==
    /\ cl[c].pc = "idle"
    /\ IF movement_thread # NoThread /\ is_alive(movement_thread)
       THEN cl' = [cl EXCEPT ![c] = [IdleCaller EXCEPT !.pc = "ret", !.arg = target_pos,
                                                      !.ret = "False"]]
       ELSE cl' = [cl EXCEPT ![c] = [IdleCaller EXCEPT !.pc = "m_create", !.arg = target_pos]]
    /\ calls' = calls + 1
    /\ UNCHANGED <<stop_flag, movement_thread, up_pin, down_pin, th>>
    /\ CallerFrame

\* move_to_position_async, line 79: a new Thread object becomes
\* self.movement_thread.  A caller still joining the object whose place it
\* takes finds its thread finished.
MoveAsyncCreate(c) ==
    /\ cl[c].pc = "m_create"
    /\ FreeSlots # {}
    /\ LET slot == CHOOSE w \in FreeSlots : \A v \in FreeSlots : w <= v IN
       /\ th' = [th EXCEPT ![slot] = NewThread(cl[c].arg)]
       /\ movement_thread' = slot
       /\ cl' = [k \in Callers |->
                   IF k = c THEN [cl[k] EXCEPT !.pc = "m_start"]
                   ELSE IF cl[k].pc = "s_join" /\ cl[k].jt = slot
                   THEN [cl[k] EXCEPT !.jt = NoThread]
                   ELSE cl[k]]
    /\ UNCHANGED <<stop_flag, up_pin, down_pin, calls>>
    /\ CallerFrame

\* move_to_position_async, lines 80-81: self.movement_thread.start() and the
\* return of True; start() raises RuntimeError for a thread started before.
MoveAsyncStart(c) ==
    /\ cl[c].pc = "m_start"
    /\ IF th[movement_thread].pc = "created"
       THEN /\ th' = [th EXCEPT ![movement_thread].pc = "begin"]
            /\ cl' = [cl EXCEPT ![c] = [cl[c] EXCEPT !.pc = "ret", !.ret = "True"]]
       ELSE /\ cl' = [cl EXCEPT ![c] = [cl[c] EXCEPT !.pc = "ret", !.ret = "Error"]]
            /\ UNCHANGED th
    /\ UNCHANGED <<stop_flag, movement_thread, up_pin, down_pin, calls>>
    /\ CallerFrame

\* stop, line 154: stop_flag.set().  Every running worker is marked as having
\* had a stop requested during its life.
StopSet(c) ==
    /\ cl[c].pc = "idle"
    /\ stop_flag' = TRUE
    /\ th' = [w \in Workers |->
                IF is_alive(w) THEN [th[w] EXCEPT !.stopReq = TRUE] ELSE th[w]]
    /\ cl' = [cl EXCEPT ![c] = [IdleCaller EXCEPT !.pc = "s_check"]]
    /\ calls' = calls + 1
    /\ UNCHANGED <<movement_thread, up_pin, down_pin>>
    /\ CallerFrame

\* A stop() that returns at once when there is no running thread, without
\* relay.all_off().
StopCheckReturnsWhenIdle(c) ==
    /\ cl[c].pc = "s_check"
    /\ IF movement_thread # NoThread /\ is_alive(movement_thread)
       THEN cl' = [cl EXCEPT ![c] = [cl[c] EXCEPT !.pc = "s_join", !.jt = movement_thread,
                                                  !.waited = TRUE]]
       ELSE cl' = [cl EXCEPT ![c] = [cl[c] EXCEPT !.pc = "ret", !.ret = "Stopped"]]
    /\ UNCHANGED <<stop_flag, movement_thread, up_pin, down_pin, th, calls>>
    /\ CallerFrame

\* stop, line 155: is there a running movement thread to join?
StopCheck(c) ==
    /\ cl[c].pc = "s_check"
    /\ IF movement_thread # NoThread /\ is_alive(movement_thread)
       THEN cl' = [cl EXCEPT ![c] = [cl[c] EXCEPT !.pc = "s_join", !.jt = movement_thread,
                                                  !.waited = TRUE]]
       ELSE cl' = [cl EXCEPT ![c] = [cl[c] EXCEPT !.pc = "s_off"]]
    /\ UNCHANGED <<stop_flag, movement_thread, up_pin, down_pin, th, calls>>
    /\ CallerFrame

\* A join that returns without waiting for the thread to end.
StopJoinDoesNotWait(c) ==
    /\ cl[c].pc = "s_join"
    /\ cl' = [cl EXCEPT ![c] = [cl[c] EXCEPT !.pc = "s_off", !.jt = NoThread]]
    /\ UNCHANGED <<stop_flag, movement_thread, up_pin, down_pin, th, calls>>
    /\ CallerFrame

\* stop, line 156: movement_thread.join() returns once that thread has ended.
StopJoin(c) ==
    /\ cl[c].pc = "s_join"
    /\ IF cl[c].jt = NoThread THEN TRUE ELSE ~is_alive(cl[c].jt)
    /\ cl' = [cl EXCEPT ![c] = [cl[c] EXCEPT !.pc = "s_off", !.jt = NoThread]]
    /\ UNCHANGED <<stop_flag, movement_thread, up_pin, down_pin, th, calls>>
    /\ CallerFrame

\* stop, lines 157-158: relay.all_off(), then the return, to clean_exit when
\* the call came from there.
StopOff(c) ==
    /\ cl[c].pc = "s_off"
    /\ up_pin' = FALSE
    /\ down_pin' = FALSE
    /\ cl' = [cl EXCEPT ![c] = [cl[c] EXCEPT !.ret = "Stopped", !.pc =
                 IF cl[c].within = "clean_exit" THEN "x_close" ELSE "ret"]]
    /\ UNCHANGED <<stop_flag, movement_thread, th, calls>>
    /\ CallerFrame

\* clean_exit, lines 166-168: the call of stop() and its first statement
\* (line 154).
CleanExit(c) ==
    /\ cl[c].pc = "idle"
    /\ stop_flag' = TRUE
    /\ th' = [w \in Workers |->
                IF is_alive(w) THEN [th[w] EXCEPT !.stopReq = TRUE] ELSE th[w]]
    /\ cl' = [cl EXCEPT ![c] = [IdleCaller EXCEPT !.pc = "s_check",
                                                  !.within = "clean_exit"]]
    /\ calls' = calls + 1
    /\ UNCHANGED <<movement_thread, up_pin, down_pin>>
    /\ CallerFrame

\* clean_exit, lines 169-170: hall.close() runs GPIO.cleanup on the sensor
\* pins, which ends the edge detection (hall.py lines 61-63); the relay lines
\* are not among them.  The display is cleared and the call returns.
CleanExitClose(c) ==
    /\ cl[c].pc = "x_close"
    /\ ha' = [ha EXCEPT !.closed = TRUE]
    /\ cl' = [cl EXCEPT ![c] = [cl[c] EXCEPT !.pc = "ret", !.ret = "Exited"]]
    /\ UNCHANGED <<stop_flag, movement_thread, up_pin, down_pin, th, calls>>
    /\ UNCHANGED <<hall, current_position, marker, edges, sensor, chk, node>>

\* ActuatorRelay.up_on, relay.py line 23: down_off(); was holds the level the
\* DOWN line had when up_on was entered.
RelayUpOnKeepsDown(c) ==
    /\ cl[c].pc = "idle"
    /\ cl' = [cl EXCEPT ![c] = [IdleCaller EXCEPT !.pc = "r_up", !.was = down_pin]]
    /\ calls' = calls + 1
    /\ UNCHANGED <<stop_flag, movement_thread, up_pin, down_pin, th>>
    /\ CallerFrame

RelayUpOn1(c) ==
    /\ cl[c].pc = "idle"
    /\ down_pin' = FALSE
    /\ cl' = [cl EXCEPT ![c] = [IdleCaller EXCEPT !.pc = "r_up", !.was = down_pin]]
    /\ calls' = calls + 1
    /\ UNCHANGED <<stop_flag, movement_thread, up_pin, th>>
    /\ CallerFrame

\* ActuatorRelay.up_on, relay.py line 24: the UP line is written high.
RelayUpOn2(c) ==
    /\ cl[c].pc = "r_up"
    /\ up_pin' = TRUE
    /\ cl' = [cl EXCEPT ![c] = IdleCaller]
    /\ UNCHANGED <<stop_flag, movement_thread, down_pin, th, calls>>
    /\ CallerFrame

\* ActuatorRelay.down_on, relay.py line 28: up_off().
RelayDownOn1(c) ==
    /\ cl[c].pc = "idle"
    /\ up_pin' = FALSE
    /\ cl' = [cl EXCEPT ![c] = [IdleCaller EXCEPT !.pc = "r_down", !.was = up_pin]]
    /\ calls' = calls + 1
    /\ UNCHANGED <<stop_flag, movement_thread, down_pin, th>>
    /\ CallerFrame

\* ActuatorRelay.down_on, relay.py line 29: the DOWN line is written high.
RelayDownOn2(c) ==
    /\ cl[c].pc = "r_down"
    /\ down_pin' = TRUE
    /\ cl' = [cl EXCEPT ![c] = IdleCaller]
    /\ UNCHANGED <<stop_flag, movement_thread, up_pin, th, calls>>
    /\ CallerFrame

\* ActuatorRelay.up_off, down_off and all_off (relay.py lines 25, 30, 32): the
\* lines of the set lines are written low.
RelayOff(c, lines) ==
    /\ cl[c].pc = "idle"
    /\ up_pin' = IF "up" \in lines THEN FALSE ELSE up_pin
    /\ down_pin' = IF "down" \in lines THEN FALSE ELSE down_pin
    /\ calls' = calls + 1
    /\ UNCHANGED <<stop_flag, movement_thread, th, cl>>
    /\ CallerFrame

\* get_current_position called from the thread c: the answer computed from
\* the snapshot of the hall array.
GetCurrentPosition(c) ==
    /\ cl[c].pc = "idle"
    /\ cl' = [cl EXCEPT ![c] = [IdleCaller EXCEPT !.pc = "ret", !.ret = "Position",
                                                  !.val = get_current_position(hall)]]
    /\ UNCHANGED <<stop_flag, movement_thread, up_pin, down_pin, th, calls>>
    /\ CallerFrame

\* get_status called from the thread c.
GetStatus(c) ==
    /\ cl[c].pc = "idle"
    /\ cl' = [cl EXCEPT ![c] = [IdleCaller EXCEPT
                 !.pc = "ret", !.ret = "Status", !.val = current_position,
                 !.moving = IF movement_thread # NoThread
                            THEN is_alive(movement_thread) ELSE FALSE]]
    /\ UNCHANGED <<stop_flag, movement_thread, up_pin, down_pin, th, calls>>
    /\ CallerFrame

\* JSON values a request carries under 'position': an integer, a number with
\* a fraction (kept in tenths), a string, or null.
JsonInt(n) == [kind |-> "int", num |-> n, text |-> <<>>]
JsonFloat(tenths) == [kind |-> "float", num |-> tenths, text |-> <<>>]
JsonStr(chars) == [kind |-> "str", num |-> 0, text |-> chars]
JsonNull == [kind |-> "null", num |-> 0, text |-> <<>>]

\* Bodies of POST /move: no JSON object or an empty one (data is falsy), an
\* object without 'position', an object with 'position'.
NoData == [obj |-> "none", position |-> JsonNull]
WithoutPosition == [obj |-> "other", position |-> JsonNull]
WithPosition(v) == [obj |-> "position", position |-> v]

Bodies ==
    {NoData, WithoutPosition}
        \cup {WithPosition(JsonInt(n)) : n \in {-1, 0, 1, 3, 5, 6}}
        \cup {WithPosition(JsonFloat(t)) : t \in {-5, 5, 25, 30, 59, 65}}
        \cup {WithPosition(JsonStr(c)) : c \in {<<"3">>, <<"a", "b">>, <<"2", ".", "5">>}}
        \cup {WithPosition(JsonNull)}

\* What int() raises instead of returning.
ValueError == [raised |-> TRUE, value |-> 0]
Returned(n) == [raised |-> FALSE, value |-> n]

Digit == [c \in {"0", "1", "2", "3", "4", "5", "6", "7", "8", "9"} |->
             CASE c = "0" -> 0 [] c = "1" -> 1 [] c = "2" -> 2 [] c = "3" -> 3
               [] c = "4" -> 4 [] c = "5" -> 5 [] c = "6" -> 6 [] c = "7" -> 7
               [] c = "8" -> 8 [] c = "9" -> 9]

\* int() of a string of decimal digits, read from the left.
RECURSIVE DigitsValue(_, _)
DigitsValue(chars, acc) ==
    IF chars = <<>> THEN acc
    ELSE DigitsValue(Tail(chars), 10 * acc + Digit[Head(chars)])

\* Python's int(x): an int is itself, a float is cut toward zero, a string
\* must spell an integer, None raises.
PyInt(v) ==
    CASE v.kind = "int" -> Returned(v.num)
      [] v.kind = "float" ->
            Returned(IF v.num >= 0 THEN v.num \div 10 ELSE -((-v.num) \div 10))
      [] v.kind = "str" ->
            IF v.text # <<>> /\ \A k \in 1..Len(v.text) : v.text[k] \in DOMAIN Digit
            THEN Returned(DigitsValue(v.text, 0))
            ELSE ValueError
      [] OTHER -> ValueError

\* The handler of POST /move up to the call of the controller (lines 45-54):
\* does it answer 400?
MoveRejects(body) ==
    \/ body.obj # "position"
    \/ PyInt(body.position).raised
    \/ ~(1 <= PyInt(body.position).value /\ PyInt(body.position).value <= 5)

\* POST /move handled by the thread c, lines 45-56: the answer 400, or the
\* call of move_to_position_async with int(data['position']).
ApiMove(c, body) ==
    IF MoveRejects(body)
    THEN /\ cl[c].pc = "idle"
         /\ cl' = [cl EXCEPT ![c] = [IdleCaller EXCEPT !.pc = "ret", !.status = 400]]
         /\ calls' = calls + 1
         /\ UNCHANGED <<stop_flag, movement_thread, up_pin, down_pin, th>>
         /\ CallerFrame
    ELSE MoveAsyncCheck(c, PyInt(body.position).value)

\* POST /move, lines 56-59: 202 when move_to_position_async returned True,
\* 409 when it returned False; an exception it raised becomes 500.
ApiMoveRespond(c) ==
    /\ cl[c].pc = "ret"
    /\ cl[c].status = 0
    /\ cl' = [cl EXCEPT ![c].status = IF cl[c].ret = "True" THEN 202
                                      ELSE IF cl[c].ret = "False" THEN 409
                                      ELSE 500]
    /\ UNCHANGED <<stop_flag, movement_thread, up_pin, down_pin, th, calls>>
    /\ CallerFrame

\* The caller has its answer and is free for the next call.
Return(c) ==
    /\ cl[c].pc = "ret"
    /\ cl' = [cl EXCEPT ![c] = IdleCaller]
    /\ UNCHANGED <<stop_flag, movement_thread, up_pin, down_pin, th, calls>>
    /\ CallerFrame

\* ------------------------------------------------------------ specification
\* SashActuator.__init__: both relay lines low, no position seen yet, and the
\* homing move to position 1 started by home_on_startup.  The hall array holds
\* the levels read at construction: no magnet, or the magnet at one sensor.
Init ==
    /\ hall \in {s \in [1..NumSensors -> {0, 1}] : ActiveCount(s) <= 1}
    /\ current_position = NoPos
    /\ stop_flag = FALSE
    /\ movement_thread = 1
    /\ up_pin = FALSE
    /\ down_pin = FALSE
    /\ marker = Unwritten
    /\ th = [w \in Workers |-> IF w = 1 THEN [NewThread(1) EXCEPT !.pc = "begin"]
                               ELSE NoThreadObj]
    /\ cl = [c \in Callers |-> IdleCaller]
    /\ calls = 0
    /\ edges = 0
    /\ ha = HallArrayInit("hall", hall)
    /\ sensor = ReadySensor
    /\ chk = NoCheck(CURRENT_SAMPLES, CURRENT_THRESHOLD_UP)
    /\ node = NoNode

\* The steps of the hardware and of the move workers.
Env(edgeLimit) ==
    \/ \E idx \in 0..(NumSensors - 1), level \in {0, 1} :
           edges < edgeLimit /\ HallEdge(idx, level)
    \/ \E w \in Workers : W_Begin(w)
    \/ \E w \in Workers : W_Search(w)
    \/ \E w \in Workers : W_PulseOn(w)
    \/ \E w \in Workers, amps \in Samples : W_Pulse(w, amps)
    \/ \E w \in Workers : W_Dir(w)
    \/ \E w \in Workers : W_On(w)
    \/ \E w \in Workers, amps \in Samples : W_Loop(w, amps)
    \/ \E w \in Workers : W_Finish(w)
    \/ \E w \in Workers : W_ReadFails(w)

\* The steps of the calling thread c.
Call(c, callLimit) ==
    \/ \E target_pos \in Targets : calls < callLimit /\ MoveAsyncCheck(c, target_pos)
    \/ MoveAsyncCreate(c)
    \/ MoveAsyncStart(c)
    \/ calls < callLimit /\ StopSet(c)
    \/ StopCheck(c)
    \/ StopJoin(c)
    \/ StopOff(c)
    \/ Return(c)

\* The HTTP handler thread and the PhysicalButtons thread both call in.
Next == Env(RaceEdges) \/ \E c \in Callers : Call(c, RaceCalls)

Spec == Init /\ [][Next]_vars

\* A single thread calls in (no buttons configured).
NextOneCaller == Env(MaxEdges) \/ Call("http", MaxCalls)

SpecOneCaller == Init /\ [][NextOneCaller]_vars

\* The steps the thread w takes when the interpreter schedules it; a failing
\* sensor read is the environment's doing and is not one of them.
WorkerStep(w) ==
    \/ W_Begin(w)
    \/ W_Search(w)
    \/ W_PulseOn(w)
    \/ \E amps \in Samples : W_Pulse(w, amps)
    \/ W_Dir(w)
    \/ W_On(w)
    \/ \E amps \in Samples : W_Loop(w, amps)
    \/ W_Finish(w)

\* A sensor edge of a sash that is moved by the actuator alone: a sensor
\* changes only while a relay line is energized, and the magnet comes to the
\* sensor last seen or to its neighbour in the direction of travel.
DrivenEdge(idx, level) ==
    /\ up_pin \/ down_pin
    /\ level = 0 =>
           \/ current_position = NoPos
           \/ up_pin /\ idx + 1 \in {current_position, current_position + 1}
           \/ down_pin /\ idx + 1 \in {current_position - 1, current_position}
    /\ HallEdge(idx, level)

\* Single moves across several positions, requested by one thread after the
\* homing move of the constructor.
NextScenario ==
    \/ \E idx \in 0..(NumSensors - 1), level \in {0, 1} :
           edges < ScenarioEdges /\ DrivenEdge(idx, level)
    \/ \E w \in Workers : WorkerStep(w)
    \/ \E w \in Workers : W_ReadFails(w)
    \/ \E target_pos \in ScenarioTargets :
           calls < ScenarioCalls /\ MoveAsyncCheck("http", target_pos)
    \/ MoveAsyncCreate("http")
    \/ MoveAsyncStart("http")
    \/ Return("http")

SpecScenario == Init /\ [][NextScenario]_vars

\* One thread drives the relay driver directly, with any sequence of its calls.
NextRelay ==
    \/ calls < RelayCalls /\ RelayUpOn1("http")
    \/ RelayUpOn2("http")
    \/ calls < RelayCalls /\ RelayDownOn1("http")
    \/ RelayDownOn2("http")
    \/ \E lines \in {{"up"}, {"down"}, {"up", "down"}} :
           calls < RelayCalls /\ RelayOff("http", lines)

SpecRelay == Init /\ [][NextRelay]_vars

\* Reading the position: the hall array may show any levels at construction
\* (HallArray reads the pins), and the callers only read.
InitSnapshot ==
    /\ hall \in [1..NumSensors -> {0, 1}]
    /\ current_position = NoPos
    /\ stop_flag = FALSE
    /\ movement_thread = 1
    /\ up_pin = FALSE
    /\ down_pin = FALSE
    /\ marker = Unwritten
    /\ th = [w \in Workers |-> IF w = 1 THEN [NewThread(1) EXCEPT !.pc = "begin"]
                               ELSE NoThreadObj]
    /\ cl = [c \in Callers |-> IdleCaller]
    /\ calls = 0
    /\ edges = 0
    /\ ha = HallArrayInit("hall", hall)
    /\ sensor = ReadySensor
    /\ chk = NoCheck(CURRENT_SAMPLES, CURRENT_THRESHOLD_UP)
    /\ node = NoNode

NextSnapshot ==
    \/ \E idx \in 0..(NumSensors - 1), level \in {0, 1} :
           edges < SnapshotEdges /\ HallEdge(idx, level)
    \/ \E c \in Callers : GetCurrentPosition(c)
    \/ \E c \in Callers : GetStatus(c)
    \/ \E c \in Callers : Return(c)

SpecSnapshot == InitSnapshot /\ [][NextSnapshot]_vars

\* The hall array on its own: the pins hold no magnet or one at construction,
\* the array comes from either file, and afterwards the pins change, the event
\* thread runs _isr and a calling thread takes snapshots.
InitHall ==
    /\ \E impl \in {"hall", "switches"} :
         \E levels \in {s \in [1..NumSensors -> {0, 1}] : ActiveCount(s) <= 1} :
            /\ ha = HallArrayInit(impl, levels)
            /\ hall = InitialState(impl, levels)
    /\ current_position = NoPos
    /\ stop_flag = FALSE
    /\ movement_thread = 1
    /\ up_pin = FALSE
    /\ down_pin = FALSE
    /\ marker = Unwritten
    /\ th = [w \in Workers |-> IF w = 1 THEN [NewThread(1) EXCEPT !.pc = "begin"]
                               ELSE NoThreadObj]
    /\ cl = [c \in Callers |-> IdleCaller]
    /\ calls = 0
    /\ edges = 0
    /\ sensor = ReadySensor
    /\ chk = NoCheck(CURRENT_SAMPLES, CURRENT_THRESHOLD_UP)
    /\ node = NoNode

NextHall ==
    \/ \E idx \in 0..(NumSensors - 1) : edges < PinEdges /\ PinEdge(idx)
    \/ \E idx \in 0..(NumSensors - 1) : BounceEnds(idx)
    \/ Isr_Read
    \/ Isr_Latch
    \/ Isr_Call
    \/ calls < SnapshotCalls /\ Snap_Acquire("http")
    \/ Snap_Copy("http")
    \/ Snap_Release("http")
    \/ \E i \in 1..NumSensors, v \in {0, 1} : Snap_Mutate("http", i, v)

SpecHall == InitHall /\ [][NextHall]_vars

\* The HTTP service: one thread handles POST /move requests while the workers
\* run.
NextApi ==
    \/ Env(ApiEdges)
    \/ \E body \in Bodies : calls < ApiCalls /\ ApiMove("http", body)
    \/ MoveAsyncCreate("http")
    \/ MoveAsyncStart("http")
    \/ ApiMoveRespond("http")
    \/ cl["http"].status # 0 /\ Return("http")

SpecApi == Init /\ [][NextApi]_vars

\* The current sensor on its own: constructed with one of several ranges and
\* shunts, then read.
InitSensor ==
    /\ hall = Idle
    /\ current_position = NoPos
    /\ stop_flag = FALSE
    /\ movement_thread = 1
    /\ up_pin = FALSE
    /\ down_pin = FALSE
    /\ marker = Unwritten
    /\ th = [w \in Workers |-> IF w = 1 THEN [NewThread(1) EXCEPT !.pc = "begin"]
                               ELSE NoThreadObj]
    /\ cl = [c \in Callers |-> IdleCaller]
    /\ calls = 0
    /\ edges = 0
    /\ ha = HallArrayInit("hall", hall)
    /\ \E i_max \in {20, 30}, r_shunt \in {100} : sensor = NewSensor(i_max, r_shunt)
    /\ chk = NoCheck(CURRENT_SAMPLES, CURRENT_THRESHOLD_UP)
    /\ node = NoNode

NextSensor ==
    \/ \E b0 \in ByteSamples, b1 \in ByteSamples : Sensor_Init(b0, b1)
    \/ \E d0 \in ByteSamples, d1 \in ByteSamples : Sensor_Read(d0, d1)

SpecSensor == InitSensor /\ [][NextSensor]_vars

\* A move that samples the current with check_current_threshold, for each
\* configured number of consecutive samples and each direction's threshold.
InitCheck ==
    /\ hall = Idle
    /\ current_position = NoPos
    /\ stop_flag = FALSE
    /\ movement_thread = 1
    /\ up_pin = FALSE
    /\ down_pin = FALSE
    /\ marker = Unwritten
    /\ th = [w \in Workers |-> IF w = 1 THEN [NewThread(1) EXCEPT !.pc = "begin"]
                               ELSE NoThreadObj]
    /\ cl = [c \in Callers |-> IdleCaller]
    /\ calls = 0
    /\ edges = 0
    /\ ha = HallArrayInit("hall", hall)
    /\ sensor = ReadySensor
    /\ node = NoNode
    /\ \E n \in 1..MaxRequiredSamples :
         \E threshold \in {CURRENT_THRESHOLD_UP, CURRENT_THRESHOLD_DOWN} :
            chk = NoCheck(n, threshold)

NextCheck ==
    \/ calls < CheckCalls /\ Check_Begin
    \/ \E amps \in Samples : Check_Sample(amps)
    \/ Check_Return

SpecCheck == InitCheck /\ [][NextCheck]_vars

\* Single moves, down (the homing move) and up, whose current samples include
\* counts below the expected minimum.
NextLow ==
    \/ \E idx \in 0..(NumSensors - 1), level \in {0, 1} :
           edges < LowEdges /\ DrivenEdge(idx, level)
    \/ \E w \in Workers : W_Begin(w)
    \/ \E w \in Workers : W_Search(w)
    \/ \E w \in Workers : W_PulseOn(w)
    \/ \E w \in Workers, amps \in LowSamples : W_Pulse(w, amps)
    \/ \E w \in Workers : W_Dir(w)
    \/ \E w \in Workers : W_On(w)
    \/ \E w \in Workers, amps \in LowSamples : W_Loop(w, amps)
    \/ \E w \in Workers : W_Finish(w)
    \/ \E target_pos \in ScenarioTargets :
           calls < LowCalls /\ MoveAsyncCheck("http", target_pos)
    \/ MoveAsyncCreate("http")
    \/ MoveAsyncStart("http")
    \/ Return("http")

SpecLow == Init /\ [][NextLow]_vars

NextFair == Env(FairEdges) \/ Call("http", FairCalls)

\* A started thread keeps being scheduled and its sleeps end (time advances).
SpecFair ==
    /\ Init
    /\ [][NextFair]_vars
    /\ \A w \in Workers : WF_vars(WorkerStep(w))

\* The service is shut down: one thread makes its calls and then calls
\* clean_exit, which may find the homing move or a later move still running.
NextExit ==
    \/ Env(ExitEdges)
    \/ Call("http", ExitCalls)
    \/ calls < ExitCalls + 1 /\ CleanExit("http")
    \/ CleanExitClose("http")

SpecExit == Init /\ [][NextExit]_vars

\* The single-sensor node: constructed with the magnet present or absent and
\* the LED line at either level, then polling while the magnet comes and goes.
InitNode ==
    /\ hall = Idle
    /\ current_position = NoPos
    /\ stop_flag = FALSE
    /\ movement_thread = NoThread
    /\ up_pin = FALSE
    /\ down_pin = FALSE
    /\ marker = Unwritten
    /\ th = [w \in Workers |-> NoThreadObj]
    /\ cl = [c \in Callers |-> IdleCaller]
    /\ calls = 0
    /\ edges = 0
    /\ ha = HallArrayInit("hall", hall)
    /\ sensor = ReadySensor
    /\ chk = NoCheck(CURRENT_SAMPLES, CURRENT_THRESHOLD_UP)
    /\ \E pin \in {0, 1}, led \in BOOLEAN : node = SashSensorInit(pin, led)

NextNode ==
    \/ edges < NodeEdges /\ NodePinEdge
    \/ node.polls < NodePolls /\ Node_Read
    \/ Node_Latch
    \/ Node_Sleep
    \/ node.reads < NodeReads /\ get_current_state

SpecNode == InitNode /\ [][NextNode]_vars

\* ------------------------------------------------------------ properties
RelaysOff == ~up_pin /\ ~down_pin

MovePcs == {"m_create", "m_start"}
StopPcs == {"s_check", "s_join", "s_off"}

\* The worker w takes a step of its own (every step of a worker moves its
\* position in the code or counts a polling tick).
Stepped(w) == th'[w].pc # th[w].pc \/ th'[w].ticks # th[w].ticks

\* C1: at most one move worker is alive at any time, whatever the
\* interleaving of the callers of move_to_position_async.
C1_AtMostOneWorker == Cardinality(AliveWorkers) <= 1

\* C2: the UP relay line and the DOWN relay line are never both energized.
C2_NeverBothEnergized == ~(up_pin /\ down_pin)

\* C3: whenever no move worker is alive, both relay lines are de-energized.
C3_RelaysOffWhenNoWorker == (AliveWorkers = {}) => RelaysOff

\* C4: a call of stop() returns only from relay.all_off(), which leaves both
\* lines low, whether or not it found a worker to join.
C4_StopForcesAllOff ==
    [][\A c \in Callers :
          (cl[c].pc \in StopPcs /\ cl'[c].pc = "ret")
              => (cl[c].pc = "s_off" /\ ~up_pin' /\ ~down_pin')]_vars

C4_Witness ==
    \E c \in Callers : cl[c].pc = "ret" /\ cl[c].ret = "Stopped" /\ cl[c].waited

\* C5: a worker for which stop() was called while it was alive ends with the
\* stopped outcome at its next check of the stop flag (the head of the search
\* loop, or a trip of the movement loop that is not at the target).
ChecksFlag(w) ==
    \/ th[w].pc = "search" /\ th[w].pulse < MaxPulses /\ Stepped(w)
    \/ th[w].pc = "loop" /\ current_position # th[w].target /\ Stepped(w)

C5_StopCancelsMove ==
    [][\A w \in Workers :
          (th[w].stopReq /\ ChecksFlag(w)) => th'[w].outcome = "Stopped"]_vars

\* C6: while a move worker is alive, a step of a move_to_position_async call
\* returns False and changes nothing else: no thread object, no relay line,
\* not the stop flag, the movement thread reference or the position.
C6_BusyCallRejected ==
    [][\A c \in Callers :
          (/\ AliveWorkers # {}
           /\ cl[c].pc \in {"idle"} \cup MovePcs
           /\ cl'[c] # cl[c]
           /\ cl'[c].pc \notin StopPcs)
              => (/\ cl'[c].pc = "ret"
                  /\ cl'[c].ret = "False"
                  /\ UNCHANGED <<th, up_pin, down_pin, stop_flag, movement_thread,
                                 current_position>>)]_vars

\* C7: a call of move_to_position_async with a target outside 1..5 never gets
\* past its entry: it creates and starts no thread and does not return True.
C7_InvalidTargetRejected ==
    \A c \in Callers :
        (cl[c].pc \in MovePcs \/ (cl[c].pc = "ret" /\ cl[c].ret = "True"))
            => ValidTarget(cl[c].arg)

\* C8: a worker whose first snapshot shows its (valid) target ends in that
\* same step with the target-reached outcome and both relay lines untouched.
C8_AlreadyAtTarget ==
    [][\A w \in Workers :
          (/\ th[w].pc = "begin"
           /\ Stepped(w)
           /\ ValidTarget(th[w].target)
           /\ get_current_position(hall) = th[w].target)
              => (/\ th'[w].pc = "done"
                  /\ th'[w].outcome = "ReachedTarget"
                  /\ ~th'[w].wrote
                  /\ UNCHANGED <<up_pin, down_pin>>)]_vars

C8_Witness ==
    \E w \in Workers :
        th[w].pc = "done" /\ th[w].outcome = "ReachedTarget" /\ ~th[w].wrote

\* C9: once the samples of the movement loop have been beyond the collision
\* threshold of the direction of travel for CURRENT_SAMPLES consecutive
\* samples, the worker has left the loop with the collision outcome, and its
\* next step leaves both relay lines low.
C9_CollisionAborts ==
    [][\A w \in Workers :
          /\ th'[w].over >= CURRENT_SAMPLES
                => (th'[w].pc = "finish" /\ th'[w].outcome = "CollisionDetected")
          /\ (th[w].pc = "finish" /\ th[w].outcome = "CollisionDetected"
                /\ Stepped(w))
                => (th'[w].pc = "done" /\ ~up_pin' /\ ~down_pin')]_vars

C9_Witness ==
    \E w \in Workers :
        /\ th[w].pc = "finish"
        /\ th[w].outcome = "CollisionDetected"
        /\ th[w].over >= CURRENT_SAMPLES
        /\ down_pin

\* C10: the position marker is not written by a move that ends by stop,
\* timeout, collision or search failure.
C10_MarkerOnlyAfterReached ==
    \A w \in Workers :
        (th[w].pc = "done"
           /\ th[w].outcome \in {"Stopped", "TimedOut", "CollisionDetected", "SearchFailed"})
            => ~th[w].wrote

\* C11: every started move worker terminates under fair scheduling (no thread
\* object stays alive forever: it is again and again not alive), and a
\* trip of the movement loop made after MAX_MOVEMENT_TIME, away from the
\* target and with no stop requested, leaves the loop as timed out.
C11_WorkerTerminates ==
    /\ \A w \in Workers : []<>(~is_alive(w))
    /\ [][\A w \in Workers :
             (/\ th[w].pc = "loop"
              /\ Stepped(w)
              /\ th[w].ticks > MaxMoveTicks
              /\ current_position # th[w].target
              /\ ~stop_flag)
                 => (th'[w].pc = "finish" /\ th'[w].outcome = "TimedOut")]_vars

C11_Witness ==
    \E w \in Workers : th[w].pc = "done" /\ th[w].outcome = "TimedOut"

\* C12: a worker that searches from an unknown position and for which no
\* sensor becomes active during its pulses leaves the search only by search
\* failure (or by a stop or a failed read): never toward the movement loop, and
\* on search failure it has issued exactly 5 DOWN pulses, has never energized
\* UP, and both relay lines are low.
C12_SearchFailsAfterFivePulses ==
    [][\A w \in Workers :
          (th[w].pc \in SearchPcs /\ Stepped(w) /\ th[w].lit = 0)
              => \/ th'[w].pc \in SearchPcs
                 \/ th'[w].pc = "done" /\ th'[w].outcome \in {"Stopped", "Crashed"}
                 \/ /\ th'[w].pc = "done"
                    /\ th'[w].outcome = "SearchFailed"
                    /\ th[w].np = MaxPulses
                    /\ th[w].nup = 0
                    /\ th[w].ndn = 0
                    /\ ~up_pin' /\ ~down_pin']_vars

\* C13: a worker whose search pulse ended on the collision test (the sample
\* was beyond the down threshold) does not go on: neither to another pulse
\* nor to the move toward the target.
C13_PulseCollisionAbortsSearch ==
    \A w \in Workers :
        th[w].hit => th[w].pc \notin (SearchPcs \cup {"dir", "on", "loop"})

\* C14: get_current_position answers index + 1 of the active channel when
\* exactly one channel of the snapshot is active, and unknown when none or
\* more than one is.
C14_PositionFromSnapshot ==
    [][\A c \in Callers :
          (cl[c].pc = "idle" /\ cl'[c].pc = "ret" /\ cl'[c].ret = "Position")
              => cl'[c].val = IF ActiveCount(hall) = 1
                              THEN CHOOSE i \in 1..NumSensors : hall[i] = 0
                              ELSE NoPos]_vars

\* C15: a current-sensor read that raises does not by itself end the move:
\* no worker ends on the error of a read.
C15_ReadErrorIsOneSample ==
    \A w \in Workers : th[w].outcome # "Crashed"

\* C16: stop() does not wait for the move worker: a caller inside stop() is
\* never held at the join of a thread that is still running.
C16_StopNeverWaits ==
    \A c \in Callers :
        cl[c].pc = "s_join" =>
            (IF cl[c].jt = NoThread THEN TRUE ELSE ~is_alive(cl[c].jt))

\* C17: a worker with target 3 that found position 1 through a sensor that
\* became active during its second search pulse, and whose movement loop then
\* sees position 3, has issued exactly two DOWN pulses and one up_on, leaves
\* the loop with the target-reached outcome and position 3, and its next
\* step leaves both relay lines low.
C17_SearchThenUpToThree ==
    [][\A w \in Workers :
          /\ (/\ th[w].pc = "loop"
              /\ Stepped(w)
              /\ th[w].target = 3
              /\ th[w].lit = 2
              /\ th[w].cur = 1
              /\ current_position = 3)
                 => (/\ th'[w].pc = "finish"
                     /\ th'[w].outcome = "ReachedTarget"
                     /\ th[w].np = 2
                     /\ th[w].nup = 1
                     /\ th[w].ndn = 0
                     /\ current_position' = 3)
          /\ (th[w].pc = "finish" /\ th[w].outcome = "ReachedTarget" /\ Stepped(w))
                 => (/\ th'[w].pc = "done"
                     /\ th'[w].outcome = "ReachedTarget"
                     /\ ~up_pin' /\ ~down_pin'
                     /\ current_position' = current_position)]_vars

C17_Witness ==
    \E w \in Workers :
        /\ th[w].pc = "finish"
        /\ th[w].outcome = "ReachedTarget"
        /\ th[w].target = 3
        /\ th[w].lit = 2
        /\ th[w].cur = 1
        /\ th[w].np = 2
        /\ current_position = 3
        /\ up_pin

\* C18: a worker moving from position 2 to position 5 whose sample is beyond
\* the up threshold for CURRENT_SAMPLES samples while the position is 3 leaves
\* the loop with the collision outcome, the position stays 3, and its next
\* step leaves both relay lines low.
C18_CollisionAtThree ==
    [][\A w \in Workers :
          /\ (/\ th[w].pc = "loop"
              /\ Stepped(w)
              /\ th[w].cur = 2
              /\ th[w].target = 5
              /\ current_position = 3
              /\ th'[w].over >= CURRENT_SAMPLES)
                 => (/\ th'[w].pc = "finish"
                     /\ th'[w].outcome = "CollisionDetected"
                     /\ current_position' = 3)
          /\ (/\ th[w].pc = "finish"
              /\ Stepped(w)
              /\ th[w].outcome = "CollisionDetected"
              /\ th[w].cur = 2
              /\ th[w].target = 5)
                 => (/\ th'[w].outcome = "CollisionDetected"
                     /\ ~up_pin' /\ ~down_pin'
                     /\ current_position' = current_position)]_vars

C18_Witness ==
    \E w \in Workers :
        /\ th[w].pc = "finish"
        /\ th[w].outcome = "CollisionDetected"
        /\ th[w].cur = 2
        /\ th[w].target = 5
        /\ current_position = 3
        /\ up_pin

\* C20: a worker that moves from a known position (no search pulse) calls
\* up_on once and never raises the DOWN line when the position is below the
\* target, and calls down_on once and never raises the UP line when above
\* (the calls are counted as long as the thread lives).
C20_OnlyTheDirectionRelay ==
    [][\A w \in Workers :
          (th[w].pc \in {"dir", "on", "loop"} /\ Stepped(w) /\ th[w].np = 0)
              => IF th[w].cur < th[w].target
                 THEN /\ down_pin' => down_pin
                      /\ is_alive(w)' => (th'[w].nup = 1 /\ th'[w].ndn = 0)
                 ELSE /\ up_pin' => up_pin
                      /\ is_alive(w)' => (th'[w].ndn = 1 /\ th'[w].nup = 0)]_vars

C20_Witness ==
    \E w \in Workers :
        /\ th[w].pc = "loop"
        /\ th[w].np = 0
        /\ th[w].cur < th[w].target
        /\ th[w].nup = 1
        /\ up_pin
        /\ ~down_pin

\* C19: up_on lowers the DOWN line before it raises the UP line and down_on
\* lowers the UP line before it raises the DOWN line: a line is raised only
\* while the other line is low, and the two lines are never both high.
C19_BreakBeforeMake ==
    [][/\ (up_pin' /\ ~up_pin) => (~down_pin /\ ~down_pin')
       /\ (down_pin' /\ ~down_pin) => (~up_pin /\ ~up_pin')
       /\ ~(up_pin' /\ down_pin')]_vars

C19_Witness ==
    \E c \in Callers : cl[c].pc = "r_up" /\ cl[c].was /\ ~down_pin /\ ~up_pin

\* C21: when a move worker ends, on any path, the position held in memory
\* (the one get_status() returns and _write_position_state() writes) is the
\* position get_current_position() computes from the snapshot of that moment.
C21_PositionFreshAtEnd ==
    [][\A w \in Workers :
          (is_alive(w) /\ th'[w].pc \notin AlivePcs)
              => current_position' = get_current_position(hall')]_vars

\* C22: snapshot() returns a list of its own that holds, for every channel,
\* the level _isr latched last: the list is the state list as it is when the
\* lock is released, however _isr and snapshot() interleave, and a caller that
\* changes the list it was given leaves the state list as it was.
C22_SnapshotIsConsistentCopy ==
    [][\A c \in Callers :
          /\ (ha.rd[c].pc = "copy" /\ ha'.rd[c].pc = "have")
                 => (ha'.rd[c].copy = hall' /\ ha'.rd[c].own)
          /\ (ha.rd[c].pc = "have" /\ ha'.rd[c].pc = "changed")
                 => hall' = hall]_vars

C22_Witness ==
    \E c \in Callers :
        /\ ha.rd[c].pc = "copy"
        /\ ha.rd[c].i > ha.isr.idx + 1
        /\ ha.isr.pc = "latch"
        /\ ha.isr.level # hall[ha.isr.idx + 1]

\* C23: right after construction (no pin has changed since) snapshot() gives
\* the level each pin had when the array was constructed, not an assumed idle
\* level.
C23_InitialStateIsRead ==
    \A c \in Callers :
        (edges = 0 /\ ha.rd[c].pc = "have") => ha.rd[c].copy = ha.pins

\* C24: _isr stores the level it read in state[idx] before it runs the
\* callback, and runs the callback once for the edge, with the pin number,
\* that level and the channel index.
C24_LatchThenCallbackOnce ==
    [][/\ (ha.isr.pc = "call" /\ ha'.isr.pc = "idle")
           => /\ hall[ha.isr.idx + 1] = ha.isr.level
              /\ ha'.args = <<HALL_PINS[ha.isr.idx + 1], ha.isr.level, ha.isr.idx>>
              /\ PinsIndex(ha'.args[1]) = ha.isr.idx
              /\ ha'.ncb = ha.ncb + 1
              /\ ha'.ncb = ha'.ntake
       /\ ha'.ncb # ha.ncb => ha.isr.pc = "call"
       /\ ha'.ncb <= ha'.ntake]_vars

C24_Witness ==
    /\ ha.ncb = 2
    /\ ha.args = <<13, 0, 2>>
    /\ hall[3] = 0
    /\ ha.isr.pc = "idle"

\* C25: once a sensor input that toggled faster than the bouncetime has
\* settled (its bouncetime is over and no edge of it waits for _isr), the
\* latched level of an array that started from the levels of its pins is the
\* level the pin has.
C25_SettledLevelIsLatched ==
    \A idx \in 0..(NumSensors - 1) :
        ( /\ ha.impl = "hall"
          /\ idx \notin ha.quiet
          /\ \A k \in 1..Len(ha.pend) : ha.pend[k] # idx
          /\ ~(ha.isr.pc # "idle" /\ ha.isr.idx = idx) )
        => hall[idx + 1] = ha.pins[idx + 1]

\* The JSON value v is an integer: an int, a number whose fraction is zero, or
\* a string of decimal digits.
IsInteger(v) ==
    \/ v.kind = "int"
    \/ v.kind = "float" /\ v.num % 10 = 0
    \/ v.kind = "str" /\ v.text # <<>>
                      /\ \A k \in 1..Len(v.text) : v.text[k] \in DOMAIN Digit

\* The integer an integer JSON value stands for.
IntegerOf(v) ==
    IF v.kind = "int" THEN v.num
    ELSE IF v.kind = "float" THEN v.num \div 10
    ELSE DigitsValue(v.text, 0)

\* C26: POST /move answers 400 and does not call the controller when the
\* body has no 'position', when the position is not an integer, and when it is
\* outside 1..5; otherwise it calls move_to_position_async once with the
\* position and answers 202 when that returned True, 409 when it returned False.
\* A number with a zero fraction and a string of digits count as integers.
C26_MoveValidatesPosition ==
    [][/\ \A body \in Bodies :
            ApiMove("http", body) =>
                IF \/ body.obj # "position"
                   \/ ~IsInteger(body.position)
                   \/ ~ValidTarget(IntegerOf(body.position))
                THEN /\ cl'["http"].status = 400
                     /\ cl'["http"].pc = "ret"
                     /\ cl'["http"].ret = "none"
                ELSE /\ cl'["http"].arg = IntegerOf(body.position)
                     /\ cl'["http"].status = 0
                     /\ \/ cl'["http"].pc = "m_create"
                        \/ cl'["http"].pc = "ret" /\ cl'["http"].ret = "False"
       /\ (cl["http"].status = 0 /\ cl'["http"].status # 0 /\ cl["http"].pc = "ret")
             => /\ cl["http"].ret = "True" => cl'["http"].status = 202
                /\ cl["http"].ret = "False" => cl'["http"].status = 409]_vars

\* C27: read_raw_shunt returns the two's-complement reading of the 16-bit
\* register value: the value itself below 0x8000, the value less 65536 from
\* there on; the result lies in -32768..32767 and differs from the register
\* value by a multiple of 65536.
C27_RawShuntIsSigned ==
    sensor.read =>
        LET value == sensor.data[1] * 256 + sensor.data[2] IN
        /\ value < 32768 => sensor.raw = value
        /\ value >= 32768 => sensor.raw = value - 65536
        /\ sensor.raw \in -32768..32767
        /\ (sensor.raw - value) % 65536 = 0

C27_Witness ==
    /\ sensor.read
    /\ sensor.data = <<250, 236>>
    /\ sensor.raw = -1300

\* C28: the constructor of the current sensor writes the calibration and reads
\* it back, and construction fails when the value read back is not the value
\* written.
C28_CalibrationVerified ==
    [][(sensor.pc = "new" /\ sensor'.pc # "new")
          => (sensor'.back # sensor'.cal => sensor'.pc = "failed")]_vars

\* C29: once stop() has been requested while the worker searches for the
\* position, the worker's next polling tick leaves both relay lines low and
\* the worker energizes no relay afterwards: it has ended, or it stands at the
\* head of the search loop, where the stop test ends it.
C29_StopDuringSearch ==
    [][\A w \in Workers :
          (th[w].pc \in SearchPcs /\ stop_flag /\ th[w].stopReq /\ Stepped(w))
              => (RelaysOff' /\ th'[w].pc \in {"done", "search"})]_vars

\* C30: an in-range sample that follows a run of over-threshold samples
\* shorter than the required count sets the count back to zero and the move
\* goes on; the move is stopped for a collision only on the required number
\* of over-threshold samples in a row.
C30_ShortRunDoesNotAbort ==
    [][/\ ( /\ chk.pc = "sampling"
            /\ chk'.k = chk.k + 1
            /\ chk.count < chk.n
            /\ chk'.seq[chk'.k] <= chk.threshold )
          => (chk'.count = 0 /\ ~chk'.aborted)
       /\ ( /\ chk.pc = "sampling"
            /\ chk'.pc = "idle"
            /\ \E i \in 1..Len(chk.seq) : chk.seq[i] <= chk.threshold )
          => (~chk'.result /\ ~chk'.aborted)]_vars

C30_Witness ==
    /\ chk.n = 2
    /\ chk.pc = "idle"
    /\ chk.seq = <<2000, 0>>
    /\ chk.threshold = CURRENT_THRESHOLD_UP
    /\ chk.count = 0
    /\ ~chk.aborted
    /\ calls = 2

\* C31: a current sample below the expected minimum that is not beyond the
\* collision threshold of the direction of travel does not end the move: a
\* trip through the movement loop with such a sample, the target not reached,
\* no stop requested and the time not up, leaves the worker in the loop with
\* the relay lines as they were, whether it moves up or down.
C31_LowCurrentDoesNotAbort ==
    [][\A w \in Workers : \A amps \in LowSamples :
          ( /\ amps < MIN_EXPECTED_CURRENT
            /\ ~Beyond(Direction(th[w].cur, th[w].target), amps)
            /\ current_position # th[w].target
            /\ ~stop_flag
            /\ th[w].ticks <= MaxMoveTicks
            /\ W_Loop(w, amps) )
          => ( /\ th'[w].pc = "loop"
               /\ th'[w].outcome = "none"
               /\ up_pin' = up_pin
               /\ down_pin' = down_pin )]_vars

C31_Witness ==
    \E w \in Workers :
        /\ th[w].pc = "loop"
        /\ th[w].ticks = MaxMoveTicks
        /\ th[w].cur < th[w].target
        /\ current_position # th[w].target
        /\ up_pin
        /\ ~stop_flag

\* The sequence check of the worker t would log the position timeout.
PositionTimedOut(t) == t.ticks - t.lvt > PositionTimeoutTicks

\* The sequence check of the worker t would log a missed position: the sensor
\* now active lies on the way, past the last valid one, and is neither the
\* first after the start nor the next after the last valid one.
MissedPosition(t) ==
    LET current_pos == get_current_position(hall) IN
    /\ ~PositionTimedOut(t)
    /\ current_pos # NoPos
    /\ IF Direction(t.cur, t.target) = "up"
       THEN /\ current_pos \in (t.cur + 1)..t.target
            /\ current_pos > t.lvp
            /\ current_pos # t.cur + 1
            /\ current_pos # t.lvp + 1
       ELSE /\ current_pos \in t.target..(t.cur - 1)
            /\ current_pos < t.lvp
            /\ current_pos # t.cur - 1
            /\ current_pos # t.lvp - 1

\* C32: the sequence check never changes how a move ends.  A trip through the
\* movement loop leaves the relay lines and the stop flag alone; a trip whose
\* check warns (missed position or position timeout), with the target not
\* reached, no stop, the time not up and no collision sample, stays in the
\* loop; a position timeout sets last_valid_time to the current time and
\* keeps last_valid_pos, a missed position records the position seen.
C32_SequenceCheckIsAdvisory ==
    [][\A w \in Workers :
          (th[w].pc = "loop" /\ Stepped(w)) =>
             /\ up_pin' = up_pin
             /\ down_pin' = down_pin
             /\ stop_flag' = stop_flag
             /\ \A amps \in Samples :
                   ( /\ PositionTimedOut(th[w]) \/ MissedPosition(th[w])
                     /\ current_position # th[w].target
                     /\ ~stop_flag
                     /\ th[w].ticks <= MaxMoveTicks
                     /\ ~Beyond(Direction(th[w].cur, th[w].target), amps)
                     /\ W_Loop(w, amps) )
                   => /\ th'[w].pc = "loop"
                      /\ th'[w].outcome = "none"
                      /\ th'[w].lvt = th[w].ticks
                      /\ PositionTimedOut(th[w]) => th'[w].lvp = th[w].lvp
                      /\ MissedPosition(th[w])
                            => th'[w].lvp = get_current_position(hall)]_vars

C32_Witness ==
    \E w \in Workers :
        /\ th[w].pc = "loop"
        /\ th[w].lvt = MaxMoveTicks
        /\ th[w].lvp = th[w].cur
        /\ th[w].ticks = MaxMoveTicks + 1
        /\ get_current_position(hall) = NoPos

\* C33: stop() with no move active only forces the relays off: each of its
\* steps leaves the threads, movement_thread and the in-memory position as
\* they were, raises no relay line and only ever sets the flag, and it returns
\* with both lines low, so a second call changes nothing more.  A move requested
\* after it is accepted, and a worker ends as stopped only when a stop was
\* requested during its own life.
C33_IdleStopIsNoOp ==
    [][/\ \A c \in Callers :
            ( /\ AliveWorkers = {}
              /\ cl'[c] # cl[c]
              /\ cl'[c].pc \in StopPcs \/ cl[c].pc \in StopPcs )
            => /\ th' = th
               /\ movement_thread' = movement_thread
               /\ current_position' = current_position
               /\ stop_flag' = (stop_flag \/ cl[c].pc = "idle")
               /\ up_pin' => up_pin
               /\ down_pin' => down_pin
               /\ cl'[c].pc = "ret" => RelaysOff'
       /\ \A c \in Callers :
            (cl[c].pc = "idle" /\ cl'[c].pc \in MovePcs \cup {"ret"}
                /\ cl'[c].arg # 0 /\ AliveWorkers = {} /\ stop_flag)
            => cl'[c].pc = "m_create"
       /\ \A w \in Workers :
            (th[w].outcome # "Stopped" /\ th'[w].outcome = "Stopped")
            => th[w].stopReq]_vars

C33_Witness ==
    /\ cl["http"].pc = "s_off"
    /\ ~cl["http"].waited
    /\ calls = 2
    /\ stop_flag
    /\ AliveWorkers = {}
    /\ RelaysOff

\* C34: whenever the search ends its pulse by reporting a position P, sensor
\* P is the active sensor of the latest snapshot at that moment
\* (get_current_position() = P).
C34_FoundPositionIsLive ==
    [][\A w \in Workers :
          (th[w].pc = "pulse" /\ th'[w].pc = "dir")
              => get_current_position(hall') = th'[w].cur]_vars

\* C35: a worker whose search located the requested target itself energizes
\* no relay line after the pulse that found it, and ends.
C35_FoundTargetEndsQuietly ==
    [][\A w \in Workers :
          ( /\ th[w].np > 0
            /\ th[w].pc \in {"dir", "on", "loop", "finish"}
            /\ th[w].cur = th[w].target
            /\ Stepped(w) )
              => /\ up_pin' => up_pin
                 /\ down_pin' => down_pin]_vars

\* C36: while a worker is inside the movement loop and the stop flag is
\* clear, the relay line of its direction of travel is energized.
C36_RunningMoveKeepsRelay ==
    \A w \in Workers :
        (th[w].pc = "loop" /\ ~stop_flag)
            => IF Direction(th[w].cur, th[w].target) = "up" THEN up_pin ELSE down_pin

\* C37: current_position is unset or a position in 1..N; it changes only on
\* an activation edge, to the index of that sensor plus one; a deactivation
\* edge leaves it as it is; once set it is never unset again.
C37_PositionFollowsActivations ==
    [][/\ current_position \in {NoPos} \cup (1..NumSensors)
       /\ current_position' \in {NoPos} \cup (1..NumSensors)
       /\ current_position' # current_position
              => \E idx \in 0..(NumSensors - 1) :
                     /\ hall[idx + 1] = 1
                     /\ hall'[idx + 1] = 0
                     /\ current_position' = idx + 1
       /\ (\E idx \in 0..(NumSensors - 1) : hall[idx + 1] = 0 /\ hall'[idx + 1] = 1)
              => current_position' = current_position
       /\ current_position # NoPos => current_position' # NoPos]_vars

C37_Witness ==
    /\ current_position \in 1..NumSensors
    /\ hall[current_position] = 1
    /\ ActiveCount(hall) = 0
    /\ edges = 2

\* C38: when clean_exit() has returned to a thread that is the only one
\* calling in, no move worker is alive and both relay lines are low, also when
\* the homing move was still running as clean_exit() was called.
C38_CleanExitLeavesNothingRunning ==
    \A c \in Callers :
        (cl[c].pc = "ret" /\ cl[c].ret = "Exited")
            => (AliveWorkers = {} /\ RelaysOff)

C38_Witness ==
    /\ cl["http"].pc = "ret"
    /\ cl["http"].ret = "Exited"
    /\ cl["http"].waited
    /\ calls = 1
    /\ th[1].outcome = "TimedOut"
    /\ ha.closed

\* C39: in the single-sensor node the LED line is high exactly when the
\* latched magnet state is true, after construction and after every trip of
\* the polling loop.
C39_LedShowsLatchedState ==
    node.pc = "read" => (node.led <=> node._state)

====
